---- MODULE Spec2Model ----
(***************************************************************************)
(* Connection-lifecycle and handshake engine of the valtrack sentry        *)
(* (pkg/ethereum/node_notifiee.go).                                        *)
(*                                                                         *)
(* One flow (goroutine) is spawned per connection-open notification.  A    *)
(* slot f holds one connection together with the handshake flow spawned    *)
(* for it; when the flow has returned and the connection is closed the     *)
(* slot is free for the next connection, so a behaviour has any number of  *)
(* connection events, of which at most Cardinality(Flows) are in progress  *)
(* at once.  A returned flow keeps its outcome and its history (pc =       *)
(* "done") until its slot is taken again.  Every access of a flow to  *)
(* shared state (the peerstore, the network's connectedness, the local     *)
(* Status record, the two caches, the event emitter) is a step of its      *)
(* own, so that flows interleave between any two such accesses, as         *)
(* goroutines do.                                                          *)
(*                                                                         *)
(* Spec is the sentry with a dial timeout longer than the grace period.    *)
(* InboundSpec is its inbound side alone under every dial timeout of       *)
(* DialTimeouts.  ConsumerSpec is the consumer process                     *)
(* (consumer/main.go), one handleMessage goroutine per message.            *)
(*                                                                         *)
(* The address book is fixed: P is a peer with known addresses, Q a peer   *)
(* with none.  Not modelled: log output, the file logger, wall-clock       *)
(* timestamps of cache entries and events, the finalized-epoch/root fields *)
(* of Status.                                                              *)
(***************************************************************************)
EXTENDS Integers, Sequences, FiniteSets, TLC

\* ---------------------------------------------------------------- bounds
MaxHeadSlot == 2       \* peers report head slots 0..MaxHeadSlot
InitHeadSlot == 0      \* head slot of the local Status record at start

MaxDialTimeout == 7    \* configured dial timeouts are 1..MaxDialTimeout seconds

Flows == {1, 2}        \* slots of connections with a handshake in progress

GracePeriod == 5       \* seconds an inbound flow sleeps before its MetaData request
DialTimeouts == 1..MaxDialTimeout
Peers == {"P", "Q"}    \* remote peer identities

\* --------------------------------------------------------- configuration
ForkDigest == "fd_local"                  \* n.cfg.ForkDigest
ForkDigests == {"fd_local", "fd_other"}   \* digests a peer may report

\* ------------------------------------------------------------ data model
Statuses == [ForkDigest : ForkDigests, HeadSlot : 0..MaxHeadSlot]
MetaDatas == {[SeqNumber |-> 7, Attnets |-> "ff"], [SeqNumber |-> 8, Attnets |-> "0f"]}
AddrBook == [p \in Peers |-> IF p = "P" THEN <<"a1", "a2">> ELSE << >>]
Directions == {"Inbound", "Outbound", "Unknown"}

\* nil values of the record types
NoStatus == [ForkDigest |-> "", HeadSlot |-> 0]
NoMetaData == [SeqNumber |-> 0, Attnets |-> ""]
NoAddrInfo == [ID |-> "", Addrs |-> << >>]

\* consumer: the messages of the stream, their subjects and payloads.  A payload
\* is JSON text: json tells whether json.Unmarshal accepts it for the event type
\* of its subject, ID is the peer id it then carries.
MsgIds == {1, 2}
Subjects == {"events.peer_discovered", "events.metadata_received", "events.other"}
Payloads == [json : BOOLEAN, ID : Peers]
NoPayload == [json |-> FALSE, ID |-> ""]
NoEvent == [ID |-> ""]
NoMsg == [pc |-> "none", subject |-> "", data |-> NoPayload, event |-> NoEvent,
          writes |-> << >>, acks |-> << >>, terms |-> 0]

\* A slot without a running flow, and a flow without history.
IdleFlow == [pc |-> "none", pid |-> "", dir |-> "", st |-> NoStatus, md |-> NoMetaData,
             addrInfo |-> NoAddrInfo, result |-> "none"]
NoHist == [rpcs |-> << >>, emitted |-> << >>, mdPuts |-> << >>, boPuts |-> << >>]

VARIABLES
    conn,       \* conn[f]: "none" | "open", the connection in slot f
    peerOf,     \* peerOf[f]: c.RemotePeer() of that connection
    flow,       \* flow[f]: the goroutine handling it: pc, pid and its locals
    hist,       \* hist[f]: what that goroutine did so far: the RPCs it issued, the
                \*   events it emitted, what it put in the two caches      (history)
    status,     \* n.reqResp.status, the local Status record
    mdCache,    \* metadata cache: peer -> MetaData or NoMetaData
    backoff,    \* backoff cache: peer -> AddrInfo or NoAddrInfo
    crashed,    \* the process died of an unrecovered panic
    maxReported,  \* the highest head slot a peer on the local fork has reported in a
                  \*   Status response so far, or the initial local one  (history)
    dialTimeout,  \* n.cfg.DialTimeout, in seconds
    msgs,         \* consumer: msgs[m], a message of the stream and its handleMessage
    peerDiscoveredWriter,    \* consumer: rows written to the peer_discovered file
    metadataReceivedWriter   \* consumer: rows written to the metadata_received file

vars == <<conn, peerOf, flow, hist, status, mdCache, backoff, crashed, maxReported,
          dialTimeout, msgs, peerDiscoveredWriter, metadataReceivedWriter>>

config == <<dialTimeout>>
consumer == <<msgs, peerDiscoveredWriter, metadataReceivedWriter>>
engine == <<conn, peerOf, flow, hist, status, mdCache, backoff, crashed, maxReported>>

caches == <<mdCache, backoff>>
network == <<conn, peerOf>>

\* ------------------------------------------------------------ helpers
\* n.host.Network().Connectedness(pid) == network.Connected, over given connections
ConnectedIn(c, po, p) == \E g \in Flows : po[g] = p /\ c[g] = "open"

Connectedness(p) == ConnectedIn(conn, peerOf, p)

\* n.host.Peerstore().Addrs(pid)
Addrs(p) == AddrBook[p]

\* addrs[:1]
FirstAddr(as) == SubSeq(as, 1, 1)

\* peer.AddrInfo{ID: pid, Addrs: addrs[:1]}
MkAddrInfo(p, as) == [ID |-> p, Addrs |-> FirstAddr(as)]

\* Mutant: the fork-digest gate is dropped.
ForkDigestIgnored(s) == TRUE

\* bytes.Equal(st.ForkDigest, n.cfg.ForkDigest[:])
ForkDigestMatches(s) == s.ForkDigest = ForkDigest

\* st.HeadSlot > n.reqResp.status.HeadSlot
HeadSlotIsHigher(s) == s.HeadSlot > status.HeadSlot

\* Mutant: the deadline is derived after the grace-period sleep.
ElapsedSinceSleep(f) == 0

\* Seconds that have passed, at the least, since the flow derived its ctx at entry:
\* an inbound flow that is past its time.Sleep has spent the grace period.
Elapsed(f) ==
    IF flow[f].dir = "Inbound" /\ flow[f].pc # "in_sleep" THEN GracePeriod ELSE 0

\* What is left of context.WithTimeout(context.Background(), n.cfg.DialTimeout).
Remaining(f) == dialTimeout - Elapsed(f)

\* ctx.Err() # nil: a request under an expired ctx ends in an error.
CtxExpired(f) == Remaining(f) <= 0

\* An RPC may always end in an error (timeout, refusal, decode error); it gets a
\* response only over a live connection.
RpcCanSucceed(p) == Connectedness(p)

Rpc(name, ok) == [name |-> name, ok |-> ok]

Start ==
    /\ conn = [f \in Flows |-> "none"]
    /\ peerOf = [f \in Flows |-> ""]
    /\ flow = [f \in Flows |-> IdleFlow]
    /\ hist = [f \in Flows |-> NoHist]
    /\ status = [ForkDigest |-> ForkDigest, HeadSlot |-> InitHeadSlot]
    /\ mdCache = [p \in Peers |-> NoMetaData]
    /\ backoff = [p \in Peers |-> NoAddrInfo]
    /\ crashed = FALSE
    /\ maxReported = InitHeadSlot
    /\ msgs = [m \in MsgIds |-> NoMsg]
    /\ peerDiscoveredWriter = << >>
    /\ metadataReceivedWriter = << >>

\* The sentry runs with a dial timeout longer than the grace period.
Init == Start /\ dialTimeout = MaxDialTimeout

\* ------------------------------------------------- transport notifications
\* The handler Connected starts for a connection of direction d.
HandlerEntry(d) ==
    IF d = "Outbound" THEN "out_addrs" ELSE IF d = "Inbound" THEN "in_sleep" ELSE "none"

\* Mutant: Connected runs the handler itself instead of spawning it, so that no
\* notification is delivered while a handshake flow is under way.
ConnectedBlocking(f, p, d) ==
    /\ ~crashed
    /\ conn[f] = "none" /\ flow[f].pc \in {"none", "done"}
    /\ \A g \in Flows : flow[g].pc \in {"none", "done"}
    /\ conn' = [conn EXCEPT ![f] = "open"]
    /\ peerOf' = [peerOf EXCEPT ![f] = p]
    /\ flow' = [flow EXCEPT ![f] =
          IF HandlerEntry(d) = "none" THEN IdleFlow
          ELSE [IdleFlow EXCEPT !.pc = HandlerEntry(d), !.pid = p, !.dir = d]]
    /\ hist' = [hist EXCEPT ![f] = NoHist]
    /\ UNCHANGED <<status, caches, crashed, maxReported, config, consumer>>

\* Connected: spawn the handler of the connection's direction and return.
Connected(f, p, d) ==
    /\ ~crashed
    /\ conn[f] = "none" /\ flow[f].pc \in {"none", "done"}
    /\ conn' = [conn EXCEPT ![f] = "open"]
    /\ peerOf' = [peerOf EXCEPT ![f] = p]
    /\ flow' = [flow EXCEPT ![f] =
          IF HandlerEntry(d) = "none" THEN IdleFlow
          ELSE [IdleFlow EXCEPT !.pc = HandlerEntry(d), !.pid = p, !.dir = d]]
    /\ hist' = [hist EXCEPT ![f] = NoHist]
    /\ UNCHANGED <<status, caches, crashed, maxReported, config, consumer>>

\* Mutant: the Disconnected notification evicts the entries of peers that are no
\* longer connected.
DisconnectedEvicts ==
    /\ mdCache' = [p \in Peers |->
                     IF ConnectedIn(conn', peerOf', p) THEN mdCache[p] ELSE NoMetaData]
    /\ UNCHANGED <<status, backoff>>

\* Disconnected, called by the transport for every connection that closes: it looks
\* the peer up in the metadata cache and logs when it is there; no state changes.
Disconnected == UNCHANGED <<status, mdCache, backoff>>

\* The remote side (or the network) closes the connection in slot f.
RemoteClose(f) ==
    /\ ~crashed
    /\ conn[f] = "open"
    /\ conn' = [conn EXCEPT ![f] = "none"]
    /\ peerOf' = [peerOf EXCEPT ![f] = ""]
    /\ Disconnected
    /\ UNCHANGED <<flow, hist, crashed, maxReported, config, consumer>>

\* ------------------------------------------------------------ flow steps
\* The flow function returns after its deferred cleanup; a panicking goroutine
\* runs its deferred calls and then takes the process down.
Return(f) ==
    /\ flow' = [flow EXCEPT ![f] =
          [IdleFlow EXCEPT !.pc = IF flow[f].result = "panic" THEN "panicked" ELSE "done",
                           !.pid = flow[f].pid, !.dir = flow[f].dir,
                           !.result = flow[f].result]]
    /\ crashed' = (flow[f].result = "panic")
    /\ UNCHANGED <<hist, maxReported, config, consumer>>

\* Mutant: the outbound flow goes on to Validate without checking for an address.
OutLookupAddrsUnchecked(f) ==
    /\ ~crashed
    /\ flow[f].pc = "out_addrs"
    /\ flow' = [flow EXCEPT ![f].addrInfo = [ID |-> flow[f].pid, Addrs |-> << >>],
                            ![f].pc = "v_status"]
    /\ UNCHANGED <<hist, status, caches, network, crashed, maxReported, config, consumer>>

\* handleOutboundConnection: addrs := Peerstore().Addrs(pid); return when empty.
OutLookupAddrs(f) ==
    /\ ~crashed
    /\ flow[f].pc = "out_addrs"
    /\ flow' = [flow EXCEPT ![f] =
          IF Len(Addrs(flow[f].pid)) = 0
          THEN [@ EXCEPT !.result = "no_addrs", !.pc = "cleanup"]
          ELSE [@ EXCEPT !.addrInfo = MkAddrInfo(flow[f].pid, Addrs(flow[f].pid)),
                         !.pc = "v_status"]]
    /\ UNCHANGED <<hist, status, caches, network, crashed, maxReported, config, consumer>>

\* validatePeer: st, err := n.reqResp.Status(ctx, pid)
ValidateStatus(f, ok, s) ==
    /\ ~crashed
    /\ flow[f].pc = "v_status"
    /\ ok => RpcCanSucceed(flow[f].pid)
    /\ hist' = [hist EXCEPT ![f].rpcs = Append(@, Rpc("Status", ok))]
    /\ flow' = [flow EXCEPT ![f] =
          IF ok THEN [@ EXCEPT !.st = s, !.pc = "v_compare"]
          ELSE [@ EXCEPT !.result = "status_failed", !.pc = "out_backoff"]]
    /\ maxReported' = IF ok /\ s.ForkDigest = ForkDigest /\ s.HeadSlot > maxReported
                      THEN s.HeadSlot ELSE maxReported
    /\ UNCHANGED <<status, caches, network, crashed, config, consumer>>

\* validatePeer: the fork-digest gate and the head-slot comparison.
ValidateCompare(f) ==
    /\ ~crashed
    /\ flow[f].pc = "v_compare"
    /\ flow' = [flow EXCEPT ![f] =
          IF ForkDigestMatches(flow[f].st) /\ HeadSlotIsHigher(flow[f].st)
          THEN [@ EXCEPT !.pc = "v_setstatus"]
          ELSE [@ EXCEPT !.pc = "v_ping"]]
    /\ UNCHANGED <<hist, status, caches, network, crashed, maxReported, config, consumer>>

\* ReqResp.SetStatus: the local record becomes the given one.
SetStatus(s) == status' = s

\* validatePeer: n.reqResp.SetStatus(st)
ValidateSetStatus(f) ==
    /\ ~crashed
    /\ flow[f].pc = "v_setstatus"
    /\ SetStatus(flow[f].st)
    /\ flow' = [flow EXCEPT ![f].pc = "v_ping"]
    /\ UNCHANGED <<hist, caches, network, crashed, maxReported, config, consumer>>

\* Mutant: the error of Ping is ignored and MetaData is requested all the same.
ValidatePingErrorIgnored(f, ok) ==
    /\ ~crashed
    /\ flow[f].pc = "v_ping"
    /\ ok => RpcCanSucceed(flow[f].pid)
    /\ hist' = [hist EXCEPT ![f].rpcs = Append(@, Rpc("Ping", ok))]
    /\ flow' = [flow EXCEPT ![f].st = NoStatus, ![f].pc = "v_metadata"]
    /\ UNCHANGED <<status, caches, network, crashed, maxReported, config, consumer>>

\* validatePeer: n.reqResp.Ping(ctx, pid)
ValidatePing(f, ok) ==
    /\ ~crashed
    /\ flow[f].pc = "v_ping"
    /\ ok => RpcCanSucceed(flow[f].pid)
    /\ hist' = [hist EXCEPT ![f].rpcs = Append(@, Rpc("Ping", ok))]
    /\ flow' = [flow EXCEPT ![f] =
          IF ok THEN [@ EXCEPT !.st = NoStatus, !.pc = "v_metadata"]
          ELSE [@ EXCEPT !.st = NoStatus, !.result = "ping_failed", !.pc = "out_backoff"]]
    /\ UNCHANGED <<status, caches, network, crashed, maxReported, config, consumer>>

\* validatePeer: md, err := n.reqResp.MetaData(ctx, pid)
ValidateMetaData(f, ok, m) ==
    /\ ~crashed
    /\ flow[f].pc = "v_metadata"
    /\ ok => RpcCanSucceed(flow[f].pid)
    /\ hist' = [hist EXCEPT ![f].rpcs = Append(@, Rpc("MetaData", ok))]
    /\ flow' = [flow EXCEPT ![f] =
          IF ok THEN [@ EXCEPT !.md = m, !.pc = "emit"]
          ELSE [@ EXCEPT !.result = "metadata_failed", !.pc = "out_backoff"]]
    /\ UNCHANGED <<status, caches, network, crashed, maxReported, config, consumer>>

\* Mutant: the event is not handed to the emitter.
SendMetadataEventSkipped(f) ==
    /\ ~crashed
    /\ flow[f].pc = "emit"
    /\ flow' = [flow EXCEPT ![f].pc = "cache"]
    /\ UNCHANGED <<hist, status, caches, network, crashed, maxReported, config, consumer>>

\* n.sendMetadataEvent(ctx, pid, addrInfo, md), in validatePeer and in the inbound flow.
SendMetadataEvent(f) ==
    /\ ~crashed
    /\ flow[f].pc = "emit"
    /\ hist' = [hist EXCEPT ![f].emitted =
                   Append(@, [ID |-> flow[f].pid, Multiaddr |-> flow[f].addrInfo.Addrs,
                              MetaData |-> flow[f].md])]
    /\ flow' = [flow EXCEPT ![f].pc = "cache"]
    /\ UNCHANGED <<status, caches, network, crashed, maxReported, config, consumer>>

\* The metadata cache's put: always overwrites.
PutMetadata(p, m) == mdCache' = [mdCache EXCEPT ![p] = m]

\* The backoff cache's put: overwrites.
PutBackoff(p, ai) == backoff' = [backoff EXCEPT ![p] = ai]

\* n.addToMetadataCache(pid, md), after which the flow body returns normally.
AddToMetadataCache(f) ==
    /\ ~crashed
    /\ flow[f].pc = "cache"
    /\ PutMetadata(flow[f].pid, flow[f].md)
    /\ hist' = [hist EXCEPT ![f].mdPuts = Append(@, flow[f].md)]
    /\ flow' = [flow EXCEPT ![f].result = "ok", ![f].pc = "cleanup"]
    /\ UNCHANGED <<status, backoff, network, crashed, maxReported, config, consumer>>

\* Mutant: a failed Validate is logged and the flow returns without the backoff put.
AddToBackoffCacheSkipped(f) ==
    /\ ~crashed
    /\ flow[f].pc = "out_backoff"
    /\ flow' = [flow EXCEPT ![f].pc = "cleanup"]
    /\ UNCHANGED <<hist, status, caches, network, crashed, maxReported, config, consumer>>

\* handleOutboundConnection: validatePeer failed; n.addToBackoffCache(pid, addrInfo).
AddToBackoffCache(f) ==
    /\ ~crashed
    /\ flow[f].pc = "out_backoff"
    /\ PutBackoff(flow[f].pid, flow[f].addrInfo)
    /\ hist' = [hist EXCEPT ![f].boPuts = Append(@, flow[f].addrInfo)]
    /\ flow' = [flow EXCEPT ![f].pc = "cleanup"]
    /\ UNCHANGED <<status, mdCache, network, crashed, maxReported, config, consumer>>

\* handleInboundConnection: time.Sleep(5s), then the connectedness check.
InSleep(f) ==
    /\ ~crashed
    /\ flow[f].pc = "in_sleep"
    /\ flow' = [flow EXCEPT ![f] =
          IF Connectedness(flow[f].pid)
          THEN [@ EXCEPT !.pc = "in_metadata"]
          ELSE [@ EXCEPT !.result = "closed_in_grace", !.pc = "cleanup"]]
    /\ UNCHANGED <<hist, status, caches, network, crashed, maxReported, config, consumer>>

\* Mutant: the inbound flow records a backoff when its MetaData request fails.
InMetaDataBacksOff(f, ok, m) ==
    /\ ~crashed
    /\ flow[f].pc = "in_metadata"
    /\ ok => RpcCanSucceed(flow[f].pid)
    /\ hist' = [hist EXCEPT ![f].rpcs = Append(@, Rpc("MetaData", ok))]
    /\ flow' = [flow EXCEPT ![f] =
          IF ok THEN [@ EXCEPT !.md = m, !.pc = "in_addrs"]
          ELSE [@ EXCEPT !.result = "metadata_failed", !.pc = "out_backoff"]]
    /\ UNCHANGED <<status, caches, network, crashed, maxReported, config, consumer>>

\* handleInboundConnection: md, err := n.reqResp.MetaData(ctx, pid)
InMetaData(f, ok, m) ==
    /\ ~crashed
    /\ flow[f].pc = "in_metadata"
    /\ ok => (RpcCanSucceed(flow[f].pid) /\ ~CtxExpired(f))
    /\ hist' = [hist EXCEPT ![f].rpcs = Append(@, Rpc("MetaData", ok))]
    /\ flow' = [flow EXCEPT ![f] =
          IF ok THEN [@ EXCEPT !.md = m, !.pc = "in_addrs"]
          ELSE [@ EXCEPT !.result = "metadata_failed", !.pc = "cleanup"]]
    /\ UNCHANGED <<status, caches, network, crashed, maxReported, config, consumer>>

\* handleInboundConnection: addrs := Peerstore().Addrs(pid).  With no address the
\* Fatal event is built but never sent (no Msg call), and addrs[:1] panics.
InLookupAddrs(f) ==
    /\ ~crashed
    /\ flow[f].pc = "in_addrs"
    /\ flow' = [flow EXCEPT ![f] =
          IF Len(Addrs(flow[f].pid)) = 0
          THEN [@ EXCEPT !.result = "panic", !.pc = "cleanup"]
          ELSE [@ EXCEPT !.addrInfo = MkAddrInfo(flow[f].pid, Addrs(flow[f].pid)),
                         !.pc = "emit"]]
    /\ UNCHANGED <<hist, status, caches, network, crashed, maxReported, config, consumer>>

\* Deferred cleanup, first statement: nothing to do when already disconnected.
Cleanup(f) ==
    /\ ~crashed
    /\ flow[f].pc = "cleanup"
    /\ IF Connectedness(flow[f].pid)
       THEN /\ flow' = [flow EXCEPT ![f].pc = "goodbye"]
            /\ UNCHANGED <<hist, crashed, maxReported, config, consumer>>
       ELSE Return(f)
    /\ UNCHANGED <<status, caches, network>>

\* Mutant: a failed Goodbye ends the cleanup, the connection is left as it is.
CleanupGoodbyeErrorReturns(f, ok) ==
    /\ ~crashed
    /\ flow[f].pc = "goodbye"
    /\ ok => RpcCanSucceed(flow[f].pid)
    /\ hist' = [hist EXCEPT ![f].rpcs = Append(@, Rpc("Goodbye", ok))]
    /\ flow' = [flow EXCEPT ![f].pc = IF ok THEN "close" ELSE "done"]
    /\ UNCHANGED <<status, caches, network, crashed, maxReported, config, consumer>>

\* Deferred cleanup: n.reqResp.Goodbye(ctx, pid, 3); an error is only logged.
CleanupGoodbye(f, ok) ==
    /\ ~crashed
    /\ flow[f].pc = "goodbye"
    /\ ok => RpcCanSucceed(flow[f].pid)
    /\ hist' = [hist EXCEPT ![f].rpcs = Append(@, Rpc("Goodbye", ok))]
    /\ flow' = [flow EXCEPT ![f].pc = "close"]
    /\ UNCHANGED <<status, caches, network, crashed, maxReported, config, consumer>>

\* n.host.Network().ClosePeer(pid): closes every connection to the peer.
ClosePeer(p) ==
    /\ conn' = [g \in Flows |-> IF peerOf[g] = p THEN "none" ELSE conn[g]]
    /\ peerOf' = [g \in Flows |-> IF peerOf[g] = p THEN "" ELSE peerOf[g]]
    /\ Disconnected

\* Mutant: the cleanup returns after Goodbye without closing the peer.
CleanupCloseSkipped(f) ==
    /\ ~crashed
    /\ flow[f].pc = "close"
    /\ Return(f)
    /\ UNCHANGED <<status, caches, network>>

\* Deferred cleanup: ClosePeer(pid), then the flow returns.
CleanupClose(f) ==
    /\ ~crashed
    /\ flow[f].pc = "close"
    /\ ClosePeer(flow[f].pid)
    /\ Return(f)

Next ==
    \/ \E f \in Flows, p \in Peers, d \in Directions : Connected(f, p, d)
    \/ \E f \in Flows : RemoteClose(f)
    \/ \E f \in Flows : OutLookupAddrs(f)
    \/ \E f \in Flows, ok \in BOOLEAN, s \in Statuses : ValidateStatus(f, ok, s)
    \/ \E f \in Flows : ValidateCompare(f)
    \/ \E f \in Flows : ValidateSetStatus(f)
    \/ \E f \in Flows, ok \in BOOLEAN : ValidatePing(f, ok)
    \/ \E f \in Flows, ok \in BOOLEAN, m \in MetaDatas : ValidateMetaData(f, ok, m)
    \/ \E f \in Flows : SendMetadataEvent(f)
    \/ \E f \in Flows : AddToMetadataCache(f)
    \/ \E f \in Flows : AddToBackoffCache(f)
    \/ \E f \in Flows : InSleep(f)
    \/ \E f \in Flows, ok \in BOOLEAN, m \in MetaDatas : InMetaData(f, ok, m)
    \/ \E f \in Flows : InLookupAddrs(f)
    \/ \E f \in Flows : Cleanup(f)
    \/ \E f \in Flows, ok \in BOOLEAN : CleanupGoodbye(f, ok)
    \/ \E f \in Flows : CleanupClose(f)

Spec == Init /\ [][Next]_vars

\* The inbound side alone, under any configured dial timeout.
InboundInit == Start /\ dialTimeout \in DialTimeouts

InboundNext ==
    \/ \E f \in Flows, p \in Peers : Connected(f, p, "Inbound")
    \/ \E f \in Flows : RemoteClose(f)
    \/ \E f \in Flows : InSleep(f)
    \/ \E f \in Flows, ok \in BOOLEAN, m \in MetaDatas : InMetaData(f, ok, m)
    \/ \E f \in Flows : InLookupAddrs(f)
    \/ \E f \in Flows : SendMetadataEvent(f)
    \/ \E f \in Flows : AddToMetadataCache(f)
    \/ \E f \in Flows : Cleanup(f)
    \/ \E f \in Flows, ok \in BOOLEAN : CleanupGoodbye(f, ok)
    \/ \E f \in Flows : CleanupClose(f)

InboundSpec == InboundInit /\ [][InboundNext]_vars

\* --------------------------------------------------------------- consumer
\* json.Unmarshal(msg.Data(), &event)
Unmarshal(d) ==
    IF d.json THEN [err |-> FALSE, event |-> [ID |-> d.ID]]
    ELSE [err |-> TRUE, event |-> NoEvent]

\* The subjects handleMessage has a case for.
KnownSubject(s) == s \in {"events.peer_discovered", "events.metadata_received"}

\* The rows the two store functions build from an event.
ParquetPeerDiscoveredEvent(e) == [table |-> "peer_discovered", ID |-> e.ID]
ParquetMetadataReceivedEvent(e) == [table |-> "metadata_received", ID |-> e.ID]

\* The Consume callback: a message of the stream is handed to a new handleMessage.
Consume(m, s, d) ==
    /\ msgs[m].pc = "none"
    /\ msgs' = [msgs EXCEPT ![m] = [NoMsg EXCEPT !.pc = "switch", !.subject = s, !.data = d]]
    /\ UNCHANGED <<peerDiscoveredWriter, metadataReceivedWriter, engine, config>>

\* handleMessage: the switch on the subject and the Unmarshal of the payload.
HandleMessage(m) ==
    /\ msgs[m].pc = "switch"
    /\ msgs' = [msgs EXCEPT ![m] =
          IF KnownSubject(msgs[m].subject)
          THEN IF Unmarshal(msgs[m].data).err
               THEN [@ EXCEPT !.pc = "term"]
               ELSE [@ EXCEPT !.event = Unmarshal(msgs[m].data).event, !.pc = "store"]
          ELSE [@ EXCEPT !.pc = "ack"]]
    /\ UNCHANGED <<peerDiscoveredWriter, metadataReceivedWriter, engine, config>>

\* Mutant: the return after msg.Term() is missing, the message is acknowledged too.
MsgTermFallsThrough(m) ==
    /\ msgs[m].pc = "term"
    /\ msgs' = [msgs EXCEPT ![m].terms = @ + 1, ![m].pc = "ack"]
    /\ UNCHANGED <<peerDiscoveredWriter, metadataReceivedWriter, engine, config>>

\* handleMessage: msg.Term(); return
MsgTerm(m) ==
    /\ msgs[m].pc = "term"
    /\ msgs' = [msgs EXCEPT ![m].terms = @ + 1, ![m].pc = "done"]
    /\ UNCHANGED <<peerDiscoveredWriter, metadataReceivedWriter, engine, config>>

\* Mutant: a failed write ends handleMessage, the message is not acknowledged.
StorePeerDiscoveredEventFailureReturns(m, ok) ==
    /\ msgs[m].pc = "store" /\ msgs[m].subject = "events.peer_discovered"
    /\ peerDiscoveredWriter' =
          IF ok THEN Append(peerDiscoveredWriter, ParquetPeerDiscoveredEvent(msgs[m].event))
          ELSE peerDiscoveredWriter
    /\ msgs' = [msgs EXCEPT
          ![m].writes = Append(@, [writer |-> "peerDiscoveredWriter", ok |-> ok]),
          ![m].pc = IF ok THEN "ack" ELSE "done"]
    /\ UNCHANGED <<metadataReceivedWriter, engine, config>>

\* storePeerDiscoveredEvent: pw.Write(parquetEvent); an error is only printed.
StorePeerDiscoveredEvent(m, ok) ==
    /\ msgs[m].pc = "store" /\ msgs[m].subject = "events.peer_discovered"
    /\ peerDiscoveredWriter' =
          IF ok THEN Append(peerDiscoveredWriter, ParquetPeerDiscoveredEvent(msgs[m].event))
          ELSE peerDiscoveredWriter
    /\ msgs' = [msgs EXCEPT
          ![m].writes = Append(@, [writer |-> "peerDiscoveredWriter", ok |-> ok]),
          ![m].pc = "ack"]
    /\ UNCHANGED <<metadataReceivedWriter, engine, config>>

\* storeMetadataReceivedEvent: pw.Write(parquetEvent); an error is only printed.
StoreMetadataReceivedEvent(m, ok) ==
    /\ msgs[m].pc = "store" /\ msgs[m].subject = "events.metadata_received"
    /\ metadataReceivedWriter' =
          IF ok THEN Append(metadataReceivedWriter,
                            ParquetMetadataReceivedEvent(msgs[m].event))
          ELSE metadataReceivedWriter
    /\ msgs' = [msgs EXCEPT
          ![m].writes = Append(@, [writer |-> "metadataReceivedWriter", ok |-> ok]),
          ![m].pc = "ack"]
    /\ UNCHANGED <<peerDiscoveredWriter, engine, config>>

\* handleMessage: msg.Ack(); an error is only printed.
MsgAck(m, ok) ==
    /\ msgs[m].pc = "ack"
    /\ msgs' = [msgs EXCEPT ![m].acks = Append(@, ok), ![m].pc = "done"]
    /\ UNCHANGED <<peerDiscoveredWriter, metadataReceivedWriter, engine, config>>

ConsumerNext ==
    \/ \E m \in MsgIds, s \in Subjects, d \in Payloads : Consume(m, s, d)
    \/ \E m \in MsgIds : HandleMessage(m)
    \/ \E m \in MsgIds : MsgTerm(m)
    \/ \E m \in MsgIds, ok \in BOOLEAN : StorePeerDiscoveredEvent(m, ok)
    \/ \E m \in MsgIds, ok \in BOOLEAN : StoreMetadataReceivedEvent(m, ok)
    \/ \E m \in MsgIds, ok \in BOOLEAN : MsgAck(m, ok)

\* The consumer process: it shares nothing with the sentry but the event stream.
ConsumerSpec == Init /\ [][ConsumerNext]_vars


\* ------------------------------------------------------------------ claims
ValidateRpcs(f) == SelectSeq(hist[f].rpcs, LAMBDA r : r.name # "Goodbye")
Issued(f, name) == \E i \in 1..Len(hist[f].rpcs) : hist[f].rpcs[i].name = name
Returns(f) == flow[f].pc \in {"cleanup", "close"} /\ flow'[f].pc \in {"done", "panicked"}

\* C1: the local head slot never decreases: every step leaves it at least as high
\* as it was, whatever the interleaving of the validatePeer runs.
C1_HeadSlotNeverDecreases == [][status'.HeadSlot >= status.HeadSlot]_vars

\* C2: a Status response with a fork digest other than the local one never changes
\* the local Status record: the comparison of such a response goes on to Ping with
\* the record as it was, and every change of the record installs a response whose
\* fork digest is the local one.
C2_MismatchedDigestNeverUpdates ==
    [][/\ \A f \in Flows :
            (flow[f].pc = "v_compare" /\ flow[f].st.ForkDigest # ForkDigest
                /\ flow'[f] # flow[f])
            => (status' = status /\ flow'[f].pc = "v_ping")
       /\ status' # status =>
            \E f \in Flows : /\ flow[f].pc = "v_setstatus" /\ flow'[f] # flow[f]
                             /\ flow[f].st.ForkDigest = ForkDigest
                             /\ status' = flow[f].st]_vars

\* C2 witness: a mismatched response with a higher head slot was compared and the
\* flow went on to Ping with the local record still lower.
C2_Witness ==
    \E f \in Flows : /\ flow[f].pc = "v_ping"
                     /\ flow[f].st.ForkDigest = "fd_other"
                     /\ flow[f].st.HeadSlot > status.HeadSlot

\* C3: when a handshake flow returns, on whatever exit path, the peer is not
\* connected: it was disconnected already or the cleanup force-closed it.
C3_ReturnLeavesPeerDisconnected ==
    [][\A f \in Flows : Returns(f) => ~ConnectedIn(conn', peerOf', flow[f].pid)]_vars

\* C3 witness: a successful flow has returned through the Goodbye and the forced close.
C3_Witness ==
    \E f \in Flows : flow[f].pc = "done" /\ flow[f].result = "ok" /\ Issued(f, "Goodbye")

\* C4 as stated: for a peer with no known address an outbound flow issues no RPC of
\* any kind, Goodbye included, and puts nothing in the backoff or metadata cache.
C4_NoAddrsNoRpcAtAll ==
    \A f \in Flows :
        (flow[f].dir = "Outbound" /\ Len(Addrs(flow[f].pid)) = 0)
        => (hist[f].rpcs = << >> /\ hist[f].boPuts = << >> /\ hist[f].mdPuts = << >>)

\* C4 amended: for a peer with no known address an outbound flow issues no Status,
\* Ping or MetaData; its only RPC is the one Goodbye of the cleanup, sent when the
\* peer is still connected; it emits nothing and puts nothing in either cache.
C4_NoAddrsNoHandshakeRpc ==
    \A f \in Flows :
        (flow[f].dir = "Outbound" /\ Len(Addrs(flow[f].pid)) = 0)
        => /\ ValidateRpcs(f) = << >>
           /\ Len(hist[f].rpcs) <= 1
           /\ hist[f].emitted = << >>
           /\ hist[f].boPuts = << >> /\ hist[f].mdPuts = << >>
           /\ flow[f].result \in {"none", "no_addrs"}

\* C4 witness: an outbound flow to the address-less peer has returned, its one RPC
\* the cleanup's Goodbye.
C4_Witness ==
    \E f \in Flows : /\ flow[f].pc = "done" /\ flow[f].dir = "Outbound"
                     /\ Len(Addrs(flow[f].pid)) = 0
                     /\ hist[f].rpcs = <<Rpc("Goodbye", TRUE)>>

\* C5 as stated: a successful Validate run has exactly one metadata-cache insertion
\* and one emitted event, and at no time has a run emitted more than it has cached.
C5_CacheBeforeEmission ==
    \A f \in Flows :
        flow[f].dir = "Outbound"
        => /\ flow[f].result = "ok"
              => (Len(hist[f].mdPuts) = 1 /\ Len(hist[f].emitted) = 1)
           /\ Len(hist[f].emitted) <= Len(hist[f].mdPuts)

\* C5 amended: a successful Validate run has exactly one emitted event and exactly
\* one metadata-cache insertion, of the same record for the run's peer, the event
\* first: at no time has a run cached more than it has emitted.
C5_EmissionBeforeCache ==
    \A f \in Flows :
        flow[f].dir = "Outbound"
        => /\ flow[f].result = "ok"
              => /\ Len(hist[f].mdPuts) = 1 /\ Len(hist[f].emitted) = 1
                 /\ hist[f].emitted[1].MetaData = hist[f].mdPuts[1]
                 /\ hist[f].emitted[1].ID = flow[f].pid
           /\ Len(hist[f].mdPuts) <= Len(hist[f].emitted)
           /\ Len(hist[f].emitted) <= 1

\* C5 witness: a Validate run has succeeded and its flow has returned.
C5_Witness ==
    \E f \in Flows : /\ flow[f].pc = "done" /\ flow[f].dir = "Outbound"
                     /\ flow[f].result = "ok" /\ Len(hist[f].emitted) = 1

ValidateFailed(f) ==
    flow[f].dir = "Outbound"
    /\ flow[f].result \in {"status_failed", "ping_failed", "metadata_failed"}

\* C6: when an outbound flow whose Validate failed has returned, the backoff cache
\* holds the peer's address info (the peer with its first known address), put there
\* by that run, and the run has put nothing in the metadata cache; every change of a
\* metadata-cache entry is the put of a flow that fetched the record.
C6_FailureBacksOffAndCachesNothing ==
    [][/\ \A f \in Flows :
            (ValidateFailed(f) /\ Returns(f))
            => /\ backoff'[flow[f].pid] =
                      [ID |-> flow[f].pid, Addrs |-> <<Addrs(flow[f].pid)[1]>>]
               /\ hist[f].boPuts = <<backoff'[flow[f].pid]>>
               /\ hist[f].mdPuts = << >>
       /\ \A p \in Peers :
            mdCache'[p] # mdCache[p]
            => \E f \in Flows : /\ flow[f].pid = p /\ flow[f].pc = "cache"
                                /\ ~ValidateFailed(f)
                                /\ hist'[f].mdPuts = Append(hist[f].mdPuts, mdCache'[p])]_vars

\* C6 witness: an outbound flow whose Ping failed has returned.
C6_Witness ==
    \E f \in Flows : flow[f].pc = "done" /\ ValidateFailed(f) /\ flow[f].result = "ping_failed"

ValidateOrder == <<"Status", "Ping", "MetaData">>

\* C7: the RPCs of one Validate run are a prefix of Status, Ping, MetaData, each
\* issued only after the ones before it succeeded; nothing is emitted or cached
\* unless all three succeeded, and no RPC of the run follows the cleanup's Goodbye.
C7_ValidateOrderStrict ==
    \A f \in Flows :
        flow[f].dir = "Outbound"
        => LET v == ValidateRpcs(f) IN
           /\ Len(v) <= 3
           /\ \A i \in 1..Len(v) : v[i].name = ValidateOrder[i] /\ (i < Len(v) => v[i].ok)
           /\ (hist[f].emitted # << >> \/ hist[f].mdPuts # << >>)
              => (Len(v) = 3 /\ v[3].ok)
           /\ \A i \in 1..Len(hist[f].rpcs) :
                 hist[f].rpcs[i].name = "Goodbye" => i = Len(hist[f].rpcs)

\* C7 witness: a run whose Status succeeded and whose Ping failed has returned.
C7_Witness ==
    \E f \in Flows : /\ flow[f].pc = "done" /\ flow[f].dir = "Outbound"
                     /\ ValidateRpcs(f) = <<Rpc("Status", TRUE), Rpc("Ping", FALSE)>>

\* C8: an inbound flow that finds the peer disconnected at the end of the grace
\* period issues no RPC (no MetaData, no Goodbye), emits nothing, caches nothing
\* and does not go on to the forced close.
C8_ClosedInGraceNoAction ==
    \A f \in Flows :
        (flow[f].dir = "Inbound" /\ flow[f].result = "closed_in_grace")
        => /\ hist[f].rpcs = << >>
           /\ hist[f].emitted = << >> /\ hist[f].mdPuts = << >>
           /\ flow[f].pc \notin {"goodbye", "close"}

\* C9: no handshake flow takes the process down: every flow ends in a normal return.
C9_NoFlowCrashesTheProcess ==
    ~crashed /\ \A f \in Flows : flow[f].pc # "panicked"

\* C10: a flow that fetched a MetaData record returns only after having put that
\* record in the metadata cache, and on its return the peer's entry is that record.
C10_FetchedMetadataIsCached ==
    [][\A f \in Flows :
          (Returns(f) /\ Issued(f, "MetaData") /\ flow[f].md # NoMetaData)
          => (hist[f].mdPuts = <<flow[f].md>> /\ mdCache'[flow[f].pid] = flow[f].md)]_vars

LastRpc(f) == hist[f].rpcs[Len(hist[f].rpcs)]

\* C11: in the cleanup of either flow a Goodbye that fails does not prevent the close:
\* whatever the outcome of Goodbye the flow goes on to the forced close, the flow
\* returns only from there once it has sent Goodbye, and the close leaves the peer
\* without an open connection.
C11_GoodbyeErrorStillCloses ==
    [][\A f \in Flows :
          /\ (flow[f].pc = "goodbye" /\ flow'[f] # flow[f])
             => (flow'[f].pc = "close" /\ conn' = conn)
          /\ (flow[f].pc = "close" /\ flow'[f] # flow[f])
             => (Returns(f) /\ ~ConnectedIn(conn', peerOf', flow[f].pid))
          /\ (flow'[f].pc \in {"done", "panicked"} /\ flow'[f] # flow[f]
                /\ Issued(f, "Goodbye"))
             => flow[f].pc = "close"]_vars

\* C11 witness: a flow of each direction whose Goodbye failed has returned through
\* the forced close, its peer disconnected.
C11_Witness ==
    \A d \in {"Inbound", "Outbound"} :
        \E f \in Flows : /\ flow[f].pc = "done" /\ flow[f].dir = d
                         /\ hist[f].rpcs # << >> /\ LastRpc(f) = Rpc("Goodbye", FALSE)
                         /\ ~Connectedness(flow[f].pid)

\* C12: an inbound flow never puts anything in the backoff cache, whatever its
\* outcome: it never reaches the backoff put and its history has no such put.
C12_InboundNeverBacksOff ==
    \A f \in Flows :
        flow[f].dir = "Inbound"
        => (hist[f].boPuts = << >> /\ flow[f].pc # "out_backoff")

\* C12 witness: an inbound flow whose MetaData request failed has returned, and the
\* backoff cache has no entry for its peer.
C12_Witness ==
    \E f \in Flows : /\ flow[f].pc = "done" /\ flow[f].dir = "Inbound"
                     /\ flow[f].result = "metadata_failed"
                     /\ backoff[flow[f].pid] = NoAddrInfo

\* C13: no entry ever leaves the metadata cache or the backoff cache (their key sets
\* only grow), and a step that closes a connection, which is when Disconnected is
\* notified, leaves both caches and the Status record as they were.
C13_NoEviction ==
    [][/\ \A p \in Peers : (mdCache[p] # NoMetaData => mdCache'[p] # NoMetaData)
       /\ \A p \in Peers : (backoff[p] # NoAddrInfo => backoff'[p] # NoAddrInfo)
       /\ (\E f \in Flows : conn[f] = "open" /\ conn'[f] = "none")
          => UNCHANGED <<status, mdCache, backoff>>]_vars

\* C13 witness: both caches hold an entry for a peer whose connections are all
\* closed and whose flows have returned.
C13_Witness ==
    \E p \in Peers : /\ mdCache[p] # NoMetaData /\ backoff[p] # NoAddrInfo
                     /\ ~Connectedness(p)
                     /\ \A f \in Flows : flow[f].pc = "done" /\ flow[f].pid = p

ValidateRunning(f) ==
    \/ flow[f].pc \in {"v_status", "v_compare", "v_setstatus", "v_ping", "v_metadata"}
    \/ flow[f].dir = "Outbound" /\ flow[f].pc \in {"emit", "cache"}

\* C14: whenever no Validate run is under way, the local head slot is the highest of
\* the initial local head slot and the head slots reported so far by peers whose
\* fork digest is the local one, in whatever order the runs interleaved.
C14_HighestMatchingHeadSlotWins ==
    (\A f \in Flows : ~ValidateRunning(f)) => status.HeadSlot = maxReported

InProgress(f) == flow[f].pc \notin {"none", "done", "panicked"}

\* C15: Connected never waits for a handshake: while the process runs, a connection
\* that opens on a free slot is notified (inbound, outbound or of unknown direction)
\* and a connection that closes is notified, whatever the other handshake flows are
\* doing, sleeping or waiting on an RPC included.
C15_ConnectedNeverBlocks ==
    ~crashed =>
        \A f \in Flows :
            /\ (conn[f] = "none" /\ ~InProgress(f))
               => \A p \in Peers, d \in Directions : ENABLED Connected(f, p, d)
            /\ conn[f] = "open" => ENABLED RemoteClose(f)

\* C15 witness: a connection was notified and its flow started while the flow of an
\* earlier connection was still sleeping, and both are now under way.
C15_Witness ==
    \E f, g \in Flows : /\ f # g
                        /\ flow[f].pc = "in_sleep" /\ hist[f].rpcs = << >>
                        /\ flow[g].pc \in {"in_metadata", "v_status"}

\* C19: the cleanup of one flow leaves alone every connection whose own handshake
\* flow is still under way: its forced close closes no such connection, and it
\* sends no Goodbye that can only travel over such a connection.
C19_CleanupLeavesOtherFlowsAlone ==
    [][\A f \in Flows : \A g \in Flows \ {f} :
          /\ (flow[f].pc = "close" /\ flow'[f] # flow[f])
             => ~(conn[g] = "open" /\ conn'[g] = "none" /\ InProgress(g))
          /\ (flow[f].pc = "goodbye" /\ flow'[f] # flow[f] /\ conn[f] = "none")
             => ~(conn[g] = "open" /\ peerOf[g] = flow[f].pid /\ InProgress(g))]_vars

\* Some step of the flow in slot f.
FlowStep(f) ==
    \/ OutLookupAddrs(f)
    \/ \E ok \in BOOLEAN, s \in Statuses : ValidateStatus(f, ok, s)
    \/ ValidateCompare(f)
    \/ ValidateSetStatus(f)
    \/ \E ok \in BOOLEAN : ValidatePing(f, ok)
    \/ \E ok \in BOOLEAN, m \in MetaDatas : ValidateMetaData(f, ok, m)
    \/ SendMetadataEvent(f)
    \/ AddToMetadataCache(f)
    \/ AddToBackoffCache(f)
    \/ InSleep(f)
    \/ \E ok \in BOOLEAN, m \in MetaDatas : InMetaData(f, ok, m)
    \/ InLookupAddrs(f)
    \/ Cleanup(f)
    \/ \E ok \in BOOLEAN : CleanupGoodbye(f, ok)
    \/ CleanupClose(f)

\* C16: every started flow reaches its return: a flow that has started and not yet
\* returned always has a next step to take (its sleep ends, its RPC returns, its
\* cleanup runs), so none is left short of its return for ever.
C16_EveryStartedFlowCanGoOn ==
    \A f \in Flows : InProgress(f) => ENABLED FlowStep(f)

Malformed(m) ==
    msgs[m].pc # "none" /\ KnownSubject(msgs[m].subject) /\ Unmarshal(msgs[m].data).err
WellFormed(m) ==
    msgs[m].pc # "none" /\ KnownSubject(msgs[m].subject) /\ ~Unmarshal(msgs[m].data).err
WriterOf(s) ==
    IF s = "events.peer_discovered" THEN "peerDiscoveredWriter" ELSE "metadataReceivedWriter"

\* C17: a message on a known subject whose payload does not deserialize is
\* terminated, once, and nothing else: handleMessage makes no write attempt for it
\* on either writer and never acknowledges it.
C17_MalformedIsTerminatedOnly ==
    \A m \in MsgIds :
        Malformed(m)
        => /\ msgs[m].writes = << >> /\ msgs[m].acks = << >>
           /\ msgs[m].pc \in {"switch", "term", "done"}
           /\ msgs[m].terms = IF msgs[m].pc = "done" THEN 1 ELSE 0

\* C17 witness: handleMessage has returned for a malformed message on a known
\* subject, terminated.
C17_Witness ==
    \E m \in MsgIds : Malformed(m) /\ msgs[m].pc = "done" /\ msgs[m].terms = 1

\* C18: a well-formed message is acknowledged exactly once by its handleMessage,
\* never terminated, and only after the one write attempt on the writer of its
\* subject, whether that write succeeded or failed.
C18_AckOnceAfterWriteAttempt ==
    \A m \in MsgIds :
        WellFormed(m)
        => /\ msgs[m].terms = 0
           /\ Len(msgs[m].acks) = IF msgs[m].pc = "done" THEN 1 ELSE 0
           /\ Len(msgs[m].writes) = IF msgs[m].pc \in {"ack", "done"} THEN 1 ELSE 0
           /\ \A i \in 1..Len(msgs[m].writes) :
                 msgs[m].writes[i].writer = WriterOf(msgs[m].subject)

\* C18 witness: a well-formed message whose write failed has been acknowledged, and
\* another whose write succeeded has been too.
C18_Witness ==
    \E m, n \in MsgIds :
        /\ WellFormed(m) /\ msgs[m].pc = "done"
        /\ msgs[m].writes[1].ok = FALSE /\ Len(msgs[m].acks) = 1
        /\ WellFormed(n) /\ msgs[n].pc = "done"
        /\ msgs[n].writes[1].ok = TRUE /\ Len(msgs[n].acks) = 1

\* C20: the deadline of an inbound flow is fixed at entry, before the grace-period
\* sleep, so its MetaData request has the dial timeout less the grace period left;
\* with a dial timeout of at most the grace period that request is issued with the
\* deadline expired and fails, and no inbound flow ever emits an event or puts
\* anything in the metadata cache.
C20_ShortDialTimeoutStarvesInbound ==
    /\ \A f \in Flows :
          flow[f].pc = "in_metadata" => Remaining(f) = dialTimeout - GracePeriod
    /\ dialTimeout <= GracePeriod
       => /\ \A f \in Flows :
                flow[f].dir = "Inbound"
                => /\ flow[f].pc = "in_metadata" => CtxExpired(f)
                   /\ \A i \in 1..Len(hist[f].rpcs) :
                         hist[f].rpcs[i].name = "MetaData" => ~hist[f].rpcs[i].ok
                   /\ hist[f].emitted = << >> /\ hist[f].mdPuts = << >>
                   /\ flow[f].result # "ok"
          /\ \A p \in Peers : mdCache[p] = NoMetaData

\* C20 witness: with the dial timeout equal to the grace period, an inbound flow
\* whose peer stayed connected has issued MetaData, which failed, and has returned
\* through Goodbye and the forced close.
C20_Witness ==
    /\ dialTimeout = GracePeriod
    /\ \E f \in Flows : /\ flow[f].pc = "done" /\ flow[f].dir = "Inbound"
                        /\ Len(hist[f].rpcs) = 2
                        /\ hist[f].rpcs[1] = Rpc("MetaData", FALSE)
                        /\ hist[f].rpcs[2].name = "Goodbye"
====
